---------------------------- MODULE Spec2Model ----------------------------
(***************************************************************************)
(* Model of the chat client of cloud-native-streaming (src/app): the       *)
(* envelope codec (writer.py, reader.py), the inbound processor            *)
(* (MyReader._process_message), the slice acquire/release cycle            *)
(* (MyReader.read) and the read and write loops sharing the running flag   *)
(* (MyChatter).                                                            *)
(*                                                                         *)
(* Text is a sequence of one-character strings, so that str.strip,         *)
(* str.lower, "".join, json.dumps and json.loads are computed character by *)
(* character.                                                              *)
(***************************************************************************)
EXTENDS Naturals, Sequences, FiniteSets, TLC

\* ------------------------------------------------------------------ text

QUOTE == "\""
BSLASH == "\\"

sender_k == <<"s","e","n","d","e","r">>
message_k == <<"m","e","s","s","a","g","e">>

tim == <<"t","i","m">>
alex == <<"a","l","e","x">>
Tim == <<"T","i","m">>

greet == <<"g","r","e","e","t">>
joke == <<"j","o","k","e">>
hello_there == <<"h","e","l","l","o"," ","t","h","e","r","e">>
Hi == <<"H","i">>
hi == <<"h","i">>
says_hi == <<" ","s","a","y","s"," ","h","i","!">>

\* str.lower on one character (the upper-case letters of the model's alphabet)
LowerChar(c) ==
  CASE c = "T" -> "t"
    [] c = "H" -> "h"
    [] c = "S" -> "s"
    [] c = "M" -> "m"
    [] OTHER -> c

\* the element of a one-element set; in The({e : x \in {v}}) the name x
\* stands for the value of v, which is worked out once
The(S) == CHOOSE x \in S : TRUE

\* str.lower
Lower(text) == The({[i \in 1..Len(s) |-> LowerChar(s[i])] : s \in {text}})

IsSpace(c) == c \in {" ", "\n", "\t", "\r"}

RECURSIVE LStrip(_)
LStrip(s) == IF s # <<>> /\ IsSpace(Head(s)) THEN LStrip(Tail(s)) ELSE s

RECURSIVE RStrip(_)
RStrip(s) ==
  IF s # <<>> /\ IsSpace(s[Len(s)]) THEN RStrip(SubSeq(s, 1, Len(s) - 1)) ELSE s

\* str.strip
Strip(s) == RStrip(LStrip(s))

\* "".join(list)
RECURSIVE Join(_)
Join(parts) == IF parts = <<>> THEN <<>> ELSE Head(parts) \o Join(Tail(parts))

\* ------------------------------------------------------------------ JSON

\* The two-field envelope record (message.Message)
Message(s, m) == [sender |-> s, message |-> m]

\* json string escaping of one character
EscapeChar(c) ==
  CASE c = QUOTE -> <<BSLASH, QUOTE>>
    [] c = BSLASH -> <<BSLASH, BSLASH>>
    [] c = "\n" -> <<BSLASH, "n">>
    [] OTHER -> <<c>>

RECURSIVE Escape(_)
Escape(s) == IF s = <<>> THEN <<>> ELSE EscapeChar(Head(s)) \o Escape(Tail(s))

JsonString(s) == <<QUOTE>> \o Escape(s) \o <<QUOTE>>

\* Message.json(): {"sender": "...", "message": "..."}
JsonDumps(msg) ==
  <<"{">> \o JsonString(sender_k) \o <<":", " ">> \o JsonString(msg.sender)
    \o <<",", " ">> \o JsonString(message_k) \o <<":", " ">>
    \o JsonString(msg.message) \o <<"}">>

Fail == [ok |-> FALSE]

RECURSIVE SkipWs(_, _)
SkipWs(s, i) == IF i <= Len(s) /\ IsSpace(s[i]) THEN SkipWs(s, i + 1) ELSE i

\* scans a JSON string body from position j (after the opening quote)
RECURSIVE ScanString(_, _, _)
ScanString(s, j, acc) ==
  IF j > Len(s) THEN Fail
  ELSE IF s[j] = QUOTE THEN [ok |-> TRUE, val |-> acc, nxt |-> j + 1]
  ELSE IF s[j] = BSLASH THEN
    IF j + 1 > Len(s) THEN Fail
    ELSE IF s[j + 1] \in {QUOTE, BSLASH, "/"}
      THEN ScanString(s, j + 2, Append(acc, s[j + 1]))
    ELSE IF s[j + 1] = "n" THEN ScanString(s, j + 2, Append(acc, "\n"))
    ELSE Fail
  ELSE IF s[j] \in {"\n", "\t", "\r"} THEN Fail
  ELSE ScanString(s, j + 1, Append(acc, s[j]))

ParseString(s, i) ==
  IF i <= Len(s) /\ s[i] = QUOTE THEN ScanString(s, i + 1, <<>>) ELSE Fail

\* the members of a JSON object from position i (at a key); a later
\* duplicate key overrides an earlier one
RECURSIVE ParseMembers(_, _, _)
ParseMembers(s, i, acc) ==
  The({
    IF ~k.ok THEN Fail
    ELSE The({
      IF c > Len(s) \/ s[c] # ":" THEN Fail
      ELSE The({
        IF ~v.ok THEN Fail
        ELSE The({
          IF e > Len(s) THEN Fail
          ELSE IF s[e] = "}"
            THEN [ok |-> TRUE, obj |-> (k.val :> v.val) @@ acc, nxt |-> e + 1]
          ELSE IF s[e] = ","
            THEN ParseMembers(s, SkipWs(s, e + 1), (k.val :> v.val) @@ acc)
          ELSE Fail
          : e \in {SkipWs(s, v.nxt)}})
        : v \in {ParseString(s, SkipWs(s, c + 1))}})
      : c \in {SkipWs(s, k.nxt)}})
    : k \in {ParseString(s, i)}})

\* a JSON object with string members starting at position i
ParseObject(s, i) ==
  IF i > Len(s) \/ s[i] # "{" THEN Fail
  ELSE
    LET j == SkipWs(s, i + 1) IN
    IF j <= Len(s) /\ s[j] = "}" THEN [ok |-> TRUE, obj |-> <<>>, nxt |-> j + 1]
    ELSE ParseMembers(s, j, <<>>)

\* json.loads accepting a value followed by anything (JSONDecoder.raw_decode)
JsonLoadsPrefix(text) ==
  The({
    The({
      IF r.ok THEN [ok |-> TRUE, obj |-> r.obj] ELSE Fail
      : r \in {ParseObject(s, SkipWs(s, 1))}})
    : s \in {text}})

\* json.loads: one value, then only whitespace ("Extra data" otherwise)
JsonLoads(text) ==
  The({
    The({
      IF r.ok /\ SkipWs(s, r.nxt) = Len(s) + 1
      THEN [ok |-> TRUE, obj |-> r.obj]
      ELSE Fail
      : r \in {ParseObject(s, SkipWs(s, 1))}})
    : s \in {text}})

\* ------------------------------------------------------------ envelopes

\* an absent value (Python None) and a present one
NoMsg == <<>>
Some(x) == <<x>>

\* MyWriter._format_message: the envelope of a locally typed text
FormatMessage(self_id, message) == JsonDumps(Message(self_id, message))

\* the parse step of MyReader._process_message
DecodeBatch(buff) == JsonLoads(Lower(Strip(Join(buff))))

\* the self-echo test of MyReader._process_message
IsOwnNever(incoming, self_id) == FALSE
IsOwn(incoming, self_id) == incoming.sender = self_id

\* MyReader._greet
GreetAnonymous(sender) == says_hi
Greet(sender) == sender \o says_hi

\* the sender given to the response
ResponseSenderSelf(incoming, self_id) == self_id
ResponseSender(incoming, self_id) == incoming.sender

\* MyReader._process_message up to the joke lookup; kind is
\*   "raise"  an exception leaves the function
\*   "none"   the message is the client's own: returns None
\*   "resp"   returns resp
\*   "joke"   the response needs the joke provider's answer
ProcessMessage(buff, self_id) ==
  The({
    IF ~jsonify.ok \/ ~({sender_k, message_k} \subseteq DOMAIN jsonify.obj)
    THEN [kind |-> "raise", incoming |-> NoMsg, resp |-> NoMsg]
    ELSE
      LET incoming == Message(jsonify.obj[sender_k], jsonify.obj[message_k])
          message == jsonify.obj[message_k]
          to == ResponseSender(incoming, self_id)
      IN
      IF IsOwn(incoming, self_id)
      THEN [kind |-> "none", incoming |-> Some(incoming), resp |-> NoMsg]
      ELSE IF message = greet
      THEN [kind |-> "resp", incoming |-> Some(incoming),
            resp |-> Some(Message(to, Greet(incoming.sender)))]
      ELSE IF message = joke
      THEN [kind |-> "joke", incoming |-> Some(incoming), resp |-> NoMsg]
      ELSE [kind |-> "resp", incoming |-> Some(incoming),
            resp |-> Some(Message(to, message))]
    : jsonify \in {DecodeBatch(buff)}})

\* the text the write loop hands to the writer
NormaliseNoStrip(text) == Lower(text)
Normalise(text) == Lower(Strip(text))

\* the loop conditions of MyChatter.read and MyChatter.write
LoopForever(flag) == TRUE
ReadLoopContinues(flag) == flag
WriteLoopContinues(flag) == flag

\* release_segment is called once on the acquired slice
ReleaseForgotten(n) == n
ReleaseCount(n) == n + 1

\* reader.py imports json, message and requests, and not logging
LoggingImported == FALSE

\* ---------------------------------------------------------------- bounds

MaxSliceLen == 2
CounterCap == 3

Inc(n) == IF n < CounterCap THEN n + 1 ELSE n

LocalIds == {tim, alex, Tim}
Senders == {tim, alex, Tim}
Texts == {greet, joke, hello_there, Hi}
JokeTexts == {<<"h","a","\n","h","a">>}
ConsoleLines == {<<>>, <<" ">>, hi, <<" ","H","i"," ">>, greet}

WellFormed == {FormatMessage(s, m) : s \in Senders, m \in Texts}
NoMessageKey == <<"{">> \o JsonString(sender_k) \o <<":", " ">> \o JsonString(alex) \o <<"}">>
Malformed == {<<"x">>, <<>>, NoMessageKey}
Events == WellFormed \cup Malformed
TailEvents == {FormatMessage(alex, greet), FormatMessage(tim, hello_there), <<"x">>}

RECURSIVE SlicesOfLen(_)
SlicesOfLen(n) ==
  IF n = 0 THEN {<<>>}
  ELSE IF n = 1 THEN {<<e>> : e \in Events}
  ELSE {Append(s, e) : s \in SlicesOfLen(n - 1), e \in TailEvents}

Slices == UNION {SlicesOfLen(n) : n \in 0..MaxSliceLen}

\* ----------------------------------------------------------------- state

VARIABLES
  id,              \* MyChatter.id = MyReader.id = MyWriter.id
  running,         \* MyChatter.running
  rpc,             \* position of the read loop
  slice,           \* the slice of the current read cycle
  buff,            \* MyReader.read: buff
  incoming,        \* _process_message: incoming
  resp,            \* what MyReader.read returns to MyChatter.read
  relCalls,        \* release_segment calls of the current read cycle
  errAt,           \* where the current read cycle raised
  printed,         \* what MyChatter.read printed in the current cycle
  closeCalls,      \* reader_offline calls
  readsAfterClose, \* broker reads issued after running became false
  wpc,             \* position of the write loop
  line,            \* the console line of the current write iteration
  published,       \* write_event calls of the current write iteration
  pubsAfterClose   \* write_event calls after running became false

rvars == <<rpc, slice, buff, incoming, resp, relCalls, errAt, printed,
           closeCalls, readsAfterClose>>
wvars == <<wpc, line, published, pubsAfterClose>>
vars == <<id, running, rvars, wvars>>

Init ==
  /\ id \in LocalIds
  /\ running = TRUE
  /\ rpc = "loop"
  /\ slice = <<>>
  /\ buff = <<>>
  /\ incoming = NoMsg
  /\ resp = NoMsg
  /\ relCalls = 0
  /\ errAt = "none"
  /\ printed = NoMsg
  /\ closeCalls = 0
  /\ readsAfterClose = 0
  /\ wpc = "loop"
  /\ line = NoMsg
  /\ published = <<>>
  /\ pubsAfterClose = 0

\* ------------------------------------------------------------- read loop

\* MyChatter.read: while(self.running)
ReadLoopCheck ==
  /\ rpc = "loop"
  /\ IF ReadLoopContinues(running)
     THEN /\ rpc' = "read"
          /\ slice' = <<>>
          /\ buff' = <<>>
          /\ incoming' = NoMsg
          /\ resp' = NoMsg
          /\ relCalls' = 0
          /\ errAt' = "none"
          /\ printed' = NoMsg
     ELSE /\ rpc' = "closing"
          /\ UNCHANGED <<slice, buff, incoming, resp, relCalls, errAt, printed>>
  /\ UNCHANGED <<id, running, closeCalls, readsAfterClose, wvars>>

\* MyReader.read: get_segment_slice_async() is issued
AcquireStart ==
  /\ rpc = "read"
  /\ rpc' = "waiting"
  /\ readsAfterClose' = IF running THEN readsAfterClose ELSE Inc(readsAfterClose)
  /\ UNCHANGED <<id, running, slice, buff, incoming, resp, relCalls, errAt,
                 printed, closeCalls, wvars>>

\* the pending broker read returns a slice
AcquireReturn ==
  /\ rpc = "waiting"
  /\ \E s \in Slices : slice' = s
  /\ rpc' = "collect"
  /\ UNCHANGED <<id, running, buff, incoming, resp, relCalls, errAt, printed,
                 closeCalls, readsAfterClose, wvars>>

\* the pending broker read raises
AcquireFail ==
  /\ rpc = "waiting"
  /\ errAt' = "acquire"
  /\ rpc' = "except"
  /\ UNCHANGED <<id, running, slice, buff, incoming, resp, relCalls, printed,
                 closeCalls, readsAfterClose, wvars>>

\* for event in slice: buff.append(event.data())
Collect ==
  /\ rpc = "collect"
  /\ buff' = slice
  /\ rpc' = "release"
  /\ UNCHANGED <<id, running, slice, incoming, resp, relCalls, errAt, printed,
                 closeCalls, readsAfterClose, wvars>>

\* event.data() raises on the k-th event
CollectFail ==
  /\ rpc = "collect"
  /\ \E k \in 1..Len(slice) : buff' = SubSeq(slice, 1, k - 1)
  /\ errAt' = "collect"
  /\ rpc' = "except"
  /\ UNCHANGED <<id, running, slice, incoming, resp, relCalls, printed,
                 closeCalls, readsAfterClose, wvars>>

\* release_segment(slice), then len(buff) > 0 decides whether to process
Release ==
  /\ rpc = "release"
  /\ relCalls' = ReleaseCount(relCalls)
  /\ rpc' = IF Len(buff) > 0 THEN "process" ELSE "return"
  /\ UNCHANGED <<id, running, slice, buff, incoming, resp, errAt, printed,
                 closeCalls, readsAfterClose, wvars>>

\* resp = await self._process_message(buff)
Process ==
  /\ rpc = "process"
  /\ \E r \in {ProcessMessage(buff, id)} :
     /\ incoming' = r.incoming
     /\ resp' = r.resp
     /\ errAt' = IF r.kind = "raise" THEN "process" ELSE errAt
     /\ rpc' = CASE r.kind = "raise" -> "except"
                 [] r.kind = "joke" -> "joke"
                 [] OTHER -> "return"
  /\ UNCHANGED <<id, running, slice, buff, relCalls, printed, closeCalls,
                 readsAfterClose, wvars>>

\* _tell_joke: the provider answers with setup and punchline
JokeReturn ==
  /\ rpc = "joke"
  /\ \E j \in JokeTexts :
       resp' = Some(Message(ResponseSender(incoming[1], id), j))
  /\ rpc' = "return"
  /\ UNCHANGED <<id, running, slice, buff, incoming, relCalls, errAt, printed,
                 closeCalls, readsAfterClose, wvars>>

\* _tell_joke: requests.get or the parse of its answer raises
JokeFail ==
  /\ rpc = "joke"
  /\ errAt' = "joke"
  /\ rpc' = "except"
  /\ UNCHANGED <<id, running, slice, buff, incoming, resp, relCalls, printed,
                 closeCalls, readsAfterClose, wvars>>

\* except Exception as e: logging.error(str(e)) -- the name logging is not
\* bound in reader.py, so the handler itself raises NameError, which leaves
\* MyReader.read and MyChatter.read
Except ==
  /\ rpc = "except"
  /\ IF LoggingImported
     THEN /\ resp' = NoMsg
          /\ rpc' = "return"
     ELSE /\ resp' = resp
          /\ rpc' = "crashed"
  /\ UNCHANGED <<id, running, slice, buff, incoming, relCalls, errAt, printed,
                 closeCalls, readsAfterClose, wvars>>

\* MyChatter.read: if (msg): print(...)
PrintResponse ==
  /\ rpc = "return"
  /\ printed' = resp
  /\ rpc' = "loop"
  /\ UNCHANGED <<id, running, slice, buff, incoming, resp, relCalls, errAt,
                 closeCalls, readsAfterClose, wvars>>

\* await self.reader.close(): reader_offline()
CloseReader ==
  /\ rpc = "closing"
  /\ closeCalls' = Inc(closeCalls)
  /\ rpc' = "done"
  /\ UNCHANGED <<id, running, slice, buff, incoming, resp, relCalls, errAt,
                 printed, readsAfterClose, wvars>>

ReaderStep ==
  \/ ReadLoopCheck
  \/ AcquireStart
  \/ AcquireReturn
  \/ AcquireFail
  \/ Collect
  \/ CollectFail
  \/ Release
  \/ Process
  \/ JokeReturn
  \/ JokeFail
  \/ Except
  \/ PrintResponse
  \/ CloseReader

\* ------------------------------------------------------------ write loop

\* MyChatter.write: while(self.running)
WriteLoopCheck ==
  /\ wpc = "loop"
  /\ IF WriteLoopContinues(running)
     THEN /\ wpc' = "input"
          /\ line' = NoMsg
          /\ published' = <<>>
     ELSE /\ wpc' = "done"
          /\ UNCHANGED <<line, published>>
  /\ UNCHANGED <<id, running, rvars, pubsAfterClose>>

\* message = input(...).strip().lower(); if (message): self.writer.write(message)
WriteInput ==
  /\ wpc = "input"
  /\ \E l \in ConsoleLines :
       LET message == Normalise(l) IN
       /\ line' = Some(l)
       /\ IF message # <<>>
          THEN /\ published' = Append(published, FormatMessage(id, message))
               /\ pubsAfterClose' =
                    IF running THEN pubsAfterClose ELSE Inc(pubsAfterClose)
          ELSE UNCHANGED <<published, pubsAfterClose>>
  /\ wpc' = "loop"
  /\ UNCHANGED <<id, running, rvars>>

WriterStep ==
  \/ WriteLoopCheck
  \/ WriteInput

\* ---------------------------------------------------------------- signal

\* signal_handler -> MyChatter.close
Close ==
  /\ running
  /\ running' = FALSE
  /\ UNCHANGED <<id, rvars, wvars>>

Next ==
  \/ ReaderStep
  \/ WriterStep
  \/ Close

Spec == Init /\ [][Next]_vars

\* the threads are scheduled and every pending blocking call returns
FairSpec == Spec /\ WF_vars(ReaderStep) /\ WF_vars(WriterStep)

\* ---------------------------------------------------------------- claims

ReadLoopTerminated == rpc \in {"done", "crashed"}
WriteLoopTerminated == wpc = "done"

\* the current read cycle has gone through _process_message
Processed == rpc \in {"return", "joke"} \/ errAt \in {"process", "joke"}

\* the fields of a published envelope, parsed as written
Envelope(bytes) == JsonLoads(bytes)

IsEnvelopeOf(bytes, s, m) ==
  /\ Envelope(bytes).ok
  /\ DOMAIN Envelope(bytes).obj = {sender_k, message_k}
  /\ Envelope(bytes).obj[sender_k] = s
  /\ Envelope(bytes).obj[message_k] = m

\* C1: an error raised in a read cycle (acquire, collect, decode, joke
\* provider) is caught inside MyReader.read: no exception reaches
\* MyChatter.read, read() returns nothing, nothing is printed, and the
\* read loop is not ended by it.
C1_ErrorNeverFatal ==
  errAt # "none" =>
    /\ rpc # "crashed"
    /\ rpc \in {"return", "loop", "closing", "done"} =>
         resp = NoMsg /\ printed = NoMsg

\* C2: once running is false the read loop issues at most one more broker
\* read, and when it ends the reader has been closed exactly once; the
\* reader is closed only after running is false and no read follows it.
C2_ReadLoopShutdown ==
  /\ [](readsAfterClose <= 1)
  /\ [](closeCalls > 0 => ~running /\ rpc = "done")
  /\ [][(~running /\ ~ReadLoopTerminated /\ ReadLoopTerminated')
          => closeCalls' = 1]_vars

\* the parts of C2 that do not depend on how a read cycle ends
C2_SafetyPart ==
  /\ readsAfterClose <= 1
  /\ closeCalls <= 1
  /\ closeCalls > 0 => ~running /\ rpc = "done"

\* C3: a batch whose decoded sender is the local id gives no response:
\* nothing is returned, nothing is printed, and no error is raised.
C3_SelfFilter ==
  (incoming # NoMsg /\ incoming[1].sender = id) =>
    /\ resp = NoMsg
    /\ printed = NoMsg
    /\ errAt = "none"
    /\ rpc \notin {"joke", "except", "crashed"}

C3_Witness ==
  /\ incoming # NoMsg
  /\ incoming[1].sender = id
  /\ incoming[1].message = greet
  /\ rpc = "loop"

\* C4: decoding the envelope that _format_message produced for (sender,
\* message) gives back the same sender and the same message.
C4_RoundTrip ==
  \A s \in Senders, m \in Texts :
    (buff = <<FormatMessage(s, m)>> /\ Processed) =>
      incoming = Some(Message(s, m))

\* C5: a response carries the incoming sender, never the local id.
C5_ResponseSender ==
  resp # NoMsg =>
    /\ incoming # NoMsg
    /\ resp[1].sender = incoming[1].sender
    /\ resp[1].sender # id

C5_Witness ==
  /\ resp # NoMsg
  /\ printed = resp
  /\ rpc = "loop"

\* C6: for a decoded message of another sender, "greet" is answered with
\* "<sender> says hi!" and a text that is neither "greet" nor "joke" is
\* returned as decoded (lower-cased); with local id tim, alex's "greet"
\* gives "alex says hi!" and alex's "hello there" gives "hello there".
C6_CommandResolution ==
  /\ (incoming # NoMsg /\ incoming[1].sender # id
        /\ rpc \in {"return", "loop", "closing", "done"}) =>
       /\ incoming[1].message = greet =>
            resp = Some(Message(incoming[1].sender,
                                incoming[1].sender \o says_hi))
       /\ incoming[1].message \notin {greet, joke} =>
            resp = Some(Message(incoming[1].sender, incoming[1].message))
  /\ (id = tim /\ rpc = "return" /\ buff = <<FormatMessage(alex, greet)>>) =>
       resp = Some(Message(alex, alex \o says_hi))
  /\ (id = tim /\ rpc = "return" /\ buff = <<FormatMessage(alex, hello_there)>>) =>
       resp = Some(Message(alex, hello_there))
  /\ (id = tim /\ rpc = "return" /\ buff = <<FormatMessage(alex, Hi)>>) =>
       resp = Some(Message(alex, hi))

C6_Witness ==
  /\ id = tim
  /\ buff = <<FormatMessage(alex, greet)>>
  /\ printed = Some(Message(alex, alex \o says_hi))

\* C7 as stated: a console line that is non-empty after trimming is
\* published exactly once as the envelope (local id, trimmed line); an
\* empty line publishes nothing.
C7_PublishesTrimmedLine ==
  (wpc \in {"loop", "done"} /\ line # NoMsg) =>
    IF Strip(line[1]) # <<>>
    THEN Len(published) = 1 /\ IsEnvelopeOf(published[1], id, Strip(line[1]))
    ELSE published = <<>>

\* C7 as the code has it: a console line that is non-empty after trimming
\* is published exactly once as the envelope (local id, trimmed and
\* lower-cased line); an empty line publishes nothing; no envelope with an
\* empty message or another sender is published.
C7_PublishesNormalisedLine ==
  /\ (wpc \in {"loop", "done"} /\ line # NoMsg) =>
       IF Strip(line[1]) # <<>>
       THEN /\ Len(published) = 1
            /\ IsEnvelopeOf(published[1], id, Lower(Strip(line[1])))
       ELSE published = <<>>
  /\ \A i \in 1..Len(published) :
       /\ Envelope(published[i]).ok
       /\ Envelope(published[i]).obj[sender_k] = id
       /\ Envelope(published[i]).obj[message_k] # <<>>

C7_Witness ==
  /\ wpc = "loop"
  /\ line = Some(<<" ", "H", "i", " ">>)
  /\ Len(published) = 1
  /\ IsEnvelopeOf(published[1], id, hi)

\* C8: after running is false the write loop starts no new iteration and
\* publishes at most one more message; when the pending blocking calls
\* return, both loops end.
C8_WriteLoopShutdown ==
  /\ [][(~running /\ wpc \in {"loop", "done"}) => wpc' \in {"loop", "done"}]_vars
  /\ [](pubsAfterClose <= 1)
  /\ (~running) ~> (WriteLoopTerminated /\ ReadLoopTerminated)

C8_Witness ==
  /\ ~running
  /\ pubsAfterClose = 1
  /\ WriteLoopTerminated
  /\ rpc = "done"

\* C9: a slice is released at most once, never in a cycle whose acquire
\* failed, and exactly once before the inbound processor runs, so that a
\* failure of the processor leaves the slice released.
C9_SliceRelease ==
  /\ relCalls <= 1
  /\ errAt = "acquire" => relCalls = 0
  /\ (rpc \in {"process", "joke", "return"} \/ errAt \in {"process", "joke"}) =>
       relCalls = 1

C9_Witness ==
  /\ errAt = "process"
  /\ relCalls = 1

AllWellFormed(s) == \A i \in 1..Len(s) : s[i] \in WellFormed

\* C10: a slice gives at most one response; a slice of two or more
\* well-formed events is handled as malformed input, after its release, and
\* none of its events is returned or printed; an empty slice gives no
\* response and no error.
C10_OneResponsePerSlice ==
  /\ Len(resp) <= 1 /\ Len(printed) <= 1
  /\ (Len(slice) >= 2 /\ AllWellFormed(slice)) =>
       /\ resp = NoMsg /\ printed = NoMsg
       /\ rpc \notin {"joke", "return", "loop", "closing", "done"}
       /\ rpc \in {"except", "crashed"} => errAt \in {"collect", "process"}
       /\ errAt = "process" => relCalls = 1
  /\ (slice = <<>> /\ errAt # "acquire") =>
       /\ resp = NoMsg /\ printed = NoMsg
       /\ errAt = "none"
       /\ rpc \notin {"process", "joke", "except", "crashed"}

C10_Witness ==
  /\ Len(slice) = 2
  /\ AllWellFormed(slice)
  /\ errAt = "process"

C10_WitnessEmpty ==
  /\ slice = <<>>
  /\ relCalls = 1
  /\ rpc = "loop"

=============================================================================
